---- MODULE Spec2Model ----
(***************************************************************************)
(* skills/youtube-watcher/scripts/get_transcript.py                        *)
(*                                                                         *)
(* A text (Python str) is a sequence of one-character strings.  clean_vtt  *)
(* is a pure function and is modelled by operators that compute what the   *)
(* code computes; get_transcript is modelled as a process that walks       *)
(* through the with-block, one action per statement that touches the       *)
(* outside world.                                                          *)
(***************************************************************************)
EXTENDS Integers, Sequences, FiniteSets, TLC

VARIABLES
    tool,         \* environment: "missing" | "fails" | "ok" (what subprocess.run meets)
    remote,       \* environment: the .vtt files yt-dlp would write for this url
    pc,           \* position inside get_transcript
    temp_dir,     \* TRUE while the TemporaryDirectory exists on disk
    dir_files,    \* the *.vtt files present in temp_dir
    invocations,  \* number of subprocess.run calls made
    raised,       \* exception propagating out of the with-block, "none" if none
    vtt_file,     \* vtt_files[0]
    content,      \* text read from vtt_file
    text_lines,   \* clean_vtt's list at its return statement
    clean_text,   \* value returned by clean_vtt
    stdout,       \* characters written to standard output
    stderr,       \* diagnostics written to standard error
    exit_code     \* process exit status, -1 while running

vars == <<tool, remote, pc, temp_dir, dir_files, invocations, raised,
          vtt_file, content, text_lines, clean_text, stdout, stderr, exit_code>>

(***************************************************************************)
(* Bounds of the checked universes.                                        *)
(***************************************************************************)
MaxTokens == 5      \* Spec: documents of at most this many markup tokens
MaxLines == 3       \* SpecStruct: documents of at most this many pool lines
MaxDedupLen == 7    \* SpecDedup: documents of at most this many characters
MaxFiles == 2       \* SpecFetch: at most this many .vtt files written

(***************************************************************************)
(* Characters and Python's str predicates.                                 *)
(***************************************************************************)
Digits == {"0", "1", "2", "3", "4", "5", "6", "7", "8", "9"}

\* characters removed by str.strip() and matched by \s
Whitespace == {" ", "\t", "\n", "\r", "\f"}

\* line boundaries of str.splitlines()
LineBreaks == {"\n", "\r", "\f"}

\* an undecodable file: read_text(encoding='utf-8') raises on it
Undecodable == <<"UnicodeDecodeError">>

\* str.strip(): drop leading and trailing whitespace
strip(s) ==
    IF \A k \in 1..Len(s) : s[k] \in Whitespace
    THEN <<>>
    ELSE LET first == CHOOSE k \in 1..Len(s) :
                          /\ s[k] \notin Whitespace
                          /\ \A m \in 1..(k - 1) : s[m] \in Whitespace
             last == CHOOSE k \in 1..Len(s) :
                          /\ s[k] \notin Whitespace
                          /\ \A m \in (k + 1)..Len(s) : s[m] \in Whitespace
         IN SubSeq(s, first, last)

\* str.isdigit(): non-empty and every character a digit
isdigit(s) == s # <<>> /\ \A k \in 1..Len(s) : s[k] \in Digits

\* str.startswith(prefix)
startswith(s, prefix) ==
    Len(s) >= Len(prefix) /\ SubSeq(s, 1, Len(prefix)) = prefix

\* positions where a line boundary ends: a break character, except the "\r"
\* of a "\r\n" pair, which is one boundary ending at the "\n"
BoundaryEnds(s) ==
    { k \in 1..Len(s) :
        /\ s[k] \in LineBreaks
        /\ ~(s[k] = "\r" /\ k < Len(s) /\ s[k + 1] = "\n") }

\* the n-th boundary, in text order
BoundaryEnd(s, n) ==
    CHOOSE k \in BoundaryEnds(s) :
        Cardinality({ j \in BoundaryEnds(s) : j <= k }) = n

\* str.splitlines(): break at line boundaries, "\r\n" counting as one, no
\* empty last line after a final boundary
splitlines(s) ==
    LET n == Cardinality(BoundaryEnds(s))
        tail == IF n = 0 THEN Len(s) > 0 ELSE BoundaryEnd(s, n) < Len(s)
        start(i) == IF i = 1 THEN 1 ELSE BoundaryEnd(s, i - 1) + 1
        stop(i) ==
            IF i > n THEN Len(s)
            ELSE LET e == BoundaryEnd(s, i)
                 IN IF s[e] = "\n" /\ e > 1 /\ s[e - 1] = "\r" THEN e - 2 ELSE e - 1
    IN [i \in 1..(IF tail THEN n + 1 ELSE n) |-> SubSeq(s, start(i), stop(i))]

RECURSIVE JoinFrom(_, _)
JoinFrom(ls, k) ==
    IF k > Len(ls) THEN <<>>
    ELSE IF k = Len(ls) THEN ls[k]
         ELSE ls[k] \o <<"\n">> \o JoinFrom(ls, k + 1)

\* '\n'.join(text_lines)
join(ls) == JoinFrom(ls, 1)

(***************************************************************************)
(* clean_vtt                                                               *)
(***************************************************************************)
WEBVTT == <<"W", "E", "B", "V", "T", "T">>
NOTE == <<"N", "O", "T", "E">>
STYLE == <<"S", "T", "Y", "L", "E">>

\* r'\d{2}:\d{2}:\d{2}\.\d{3}\s-->\s\d{2}:\d{2}:\d{2}\.\d{3}', one element per
\* character consumed: "\\d" and "\\s" are the classes, the rest literals
timestamp_pattern_no_ms ==
    <<"\\d", "\\d", ":", "\\d", "\\d", ":", "\\d", "\\d",
      "\\s", "-", "-", ">", "\\s",
      "\\d", "\\d", ":", "\\d", "\\d", ":", "\\d", "\\d">>

timestamp_pattern ==
    <<"\\d", "\\d", ":", "\\d", "\\d", ":", "\\d", "\\d", ".", "\\d", "\\d", "\\d",
      "\\s", "-", "-", ">", "\\s",
      "\\d", "\\d", ":", "\\d", "\\d", ":", "\\d", "\\d", ".", "\\d", "\\d", "\\d">>

ElemMatches(p, c) ==
    IF p = "\\d" THEN c \in Digits
    ELSE IF p = "\\s" THEN c \in Whitespace
         ELSE c = p

\* the pattern matches the text starting at position k
MatchesAt(pat, s, k) ==
    /\ Len(s) >= k - 1 + Len(pat)
    /\ \A m \in 1..Len(pat) : ElemMatches(pat[m], s[k - 1 + m])

\* timestamp_pattern.search(line): a match anywhere in the line
timestamp_search(line) ==
    \E k \in 1..Len(line) : MatchesAt(timestamp_pattern, line, k)

\* timestamp_pattern.match(line): anchored at the start of the line only
timestamp_match(line) == MatchesAt(timestamp_pattern, line, 1)

IsHeader(line) == line = WEBVTT
IsAnnotation(line) == startswith(line, NOTE) \/ startswith(line, STYLE)

\* the three `continue` tests on the trimmed line
Discarded(line) ==
    \/ line = <<>> \/ IsHeader(line) \/ isdigit(line)
    \/ timestamp_match(line)
    \/ IsAnnotation(line)

\* position of the '>' closing a tag opened at k, 0 if '<[^>]+>' fails at k
TagEnd(line, k) ==
    IF line[k] # "<" THEN 0
    ELSE IF \E j \in (k + 1)..Len(line) : line[j] = ">"
         THEN LET j == CHOOSE j \in (k + 1)..Len(line) :
                           /\ line[j] = ">"
                           /\ \A m \in (k + 1)..(j - 1) : line[m] # ">"
              IN IF j > k + 1 THEN j ELSE 0
         ELSE 0

RECURSIVE SubFrom(_, _)
SubFrom(line, k) ==
    IF k > Len(line) THEN <<>>
    ELSE IF TagEnd(line, k) # 0
         THEN SubFrom(line, TagEnd(line, k) + 1)
         ELSE <<line[k]>> \o SubFrom(line, k + 1)

\* re.sub(..., count=1): only the leftmost tag is removed
RECURSIVE SubFirstFrom(_, _)
SubFirstFrom(line, k) ==
    IF k > Len(line) THEN <<>>
    ELSE IF TagEnd(line, k) # 0
         THEN SubSeq(line, TagEnd(line, k) + 1, Len(line))
         ELSE <<line[k]>> \o SubFirstFrom(line, k + 1)

StripFirstTag(line) == SubFirstFrom(line, 1)

\* the substitution left out
StripNothing(line) == line

\* re.sub(r'<[^>]+>', '', line): leftmost, non-overlapping, every match
StripTags(line) == SubFrom(line, 1)

\* membership in a `seen` set instead of the look at text_lines[-1]
IsDuplicateGlobal(stored, line) ==
    \E k \in 1..Len(stored) : stored[k] = line

\* `text_lines and text_lines[-1] == line`, on the line before re.sub
IsDuplicate(stored, line) ==
    stored # <<>> /\ stored[Len(stored)] = line

\* text_lines.insert(0, line)
StoreLineFirst(stored, line) == <<line>> \o stored

\* text_lines.append(line)
StoreLine(stored, line) == Append(stored, line)

RECURSIVE CleanLoop(_, _, _)
CleanLoop(lines, k, stored) ==
    IF k > Len(lines) THEN stored
    ELSE LET line == strip(lines[k])
         IN IF Discarded(line) THEN CleanLoop(lines, k + 1, stored)
            ELSE IF IsDuplicate(stored, line)
                 THEN CleanLoop(lines, k + 1, stored)
                 ELSE CleanLoop(lines, k + 1, StoreLine(stored, StripTags(line)))

\* text_lines when the for loop of clean_vtt has ended
CleanLines(text) == CleanLoop(splitlines(text), 1, <<>>)

clean_vtt(text) == join(CleanLines(text))

(***************************************************************************)
(* get_transcript, and the interpreter's exit after main() returns         *)
(***************************************************************************)
\* temp_dir still on disk after TemporaryDirectory.__exit__, were cleanup
\* skipped when an exception (SystemExit included) leaves the block
DirKeptOnException(exc) == exc # "none"

\* TemporaryDirectory.__exit__ removes the directory whatever leaves the block
DirAfterExit(exc) == FALSE

\* every path ending with status 0
ExitStatusAlwaysZero(exc) == 0

\* sys.exit(1) and an uncaught exception both end the process with status 1
ExitStatus(exc) == IF exc = "none" THEN 0 ELSE 1

\* with tempfile.TemporaryDirectory() as temp_dir:
EnterScope ==
    /\ pc = "start"
    /\ temp_dir' = TRUE
    /\ pc' = "run"
    /\ UNCHANGED <<tool, remote, dir_files, invocations, raised, vtt_file,
                   content, text_lines, clean_text, stdout, stderr, exit_code>>

\* subprocess.run(cmd, cwd=temp_dir, check=True, capture_output=True) returns
RunTool ==
    /\ pc = "run"
    /\ tool = "ok"
    /\ invocations' = invocations + 1
    /\ dir_files' = remote
    /\ pc' = "glob"
    /\ UNCHANGED <<tool, remote, temp_dir, raised, vtt_file, content,
                   text_lines, clean_text, stdout, stderr, exit_code>>

\* except subprocess.CalledProcessError: print to stderr, sys.exit(1)
RunToolFails ==
    /\ pc = "run"
    /\ tool = "fails"
    /\ invocations' = invocations + 1
    /\ stderr' = Append(stderr, "Error running yt-dlp")
    /\ raised' = "SystemExit"
    /\ pc' = "unwind"
    /\ UNCHANGED <<tool, remote, temp_dir, dir_files, vtt_file, content,
                   text_lines, clean_text, stdout, exit_code>>

\* except FileNotFoundError: print to stderr, sys.exit(1)
RunToolMissing ==
    /\ pc = "run"
    /\ tool = "missing"
    /\ invocations' = invocations + 1
    /\ stderr' = Append(stderr, "Error: yt-dlp not found. Please install it.")
    /\ raised' = "SystemExit"
    /\ pc' = "unwind"
    /\ UNCHANGED <<tool, remote, temp_dir, dir_files, vtt_file, content,
                   text_lines, clean_text, stdout, exit_code>>

\* vtt_files empty: print to stderr, sys.exit(1)
GlobNone ==
    /\ pc = "glob"
    /\ dir_files = {}
    /\ stderr' = Append(stderr, "No subtitles found.")
    /\ raised' = "SystemExit"
    /\ pc' = "unwind"
    /\ UNCHANGED <<tool, remote, temp_dir, dir_files, invocations, vtt_file,
                   content, text_lines, clean_text, stdout, exit_code>>

\* vtt_file = vtt_files[0]: glob order is whatever the directory scan yields
GlobFirst ==
    /\ pc = "glob"
    /\ \E f \in dir_files : vtt_file' = f
    /\ pc' = "read"
    /\ UNCHANGED <<tool, remote, temp_dir, dir_files, invocations, raised,
                   content, text_lines, clean_text, stdout, stderr, exit_code>>

\* content = vtt_file.read_text(encoding='utf-8')
ReadText ==
    /\ pc = "read"
    /\ vtt_file # Undecodable
    /\ content' = vtt_file
    /\ pc' = "clean"
    /\ UNCHANGED <<tool, remote, temp_dir, dir_files, invocations, raised,
                   vtt_file, text_lines, clean_text, stdout, stderr, exit_code>>

\* read_text raises; nothing in get_transcript catches it
ReadTextRaises ==
    /\ pc = "read"
    /\ vtt_file = Undecodable
    /\ raised' = "UnicodeDecodeError"
    /\ pc' = "unwind"
    /\ UNCHANGED <<tool, remote, temp_dir, dir_files, invocations, vtt_file,
                   content, text_lines, clean_text, stdout, stderr, exit_code>>

\* clean_text = clean_vtt(content); print(clean_text)
CleanAndPrint ==
    /\ pc = "clean"
    /\ text_lines' = CleanLines(content)
    /\ clean_text' = clean_vtt(content)
    /\ stdout' = stdout \o clean_vtt(content) \o <<"\n">>
    /\ pc' = "unwind"
    /\ UNCHANGED <<tool, remote, temp_dir, dir_files, invocations, raised,
                   vtt_file, content, stderr, exit_code>>

\* the with-block is left: TemporaryDirectory.__exit__
ExitScope ==
    /\ pc = "unwind"
    /\ temp_dir' = DirAfterExit(raised)
    /\ dir_files' = IF DirAfterExit(raised) THEN dir_files ELSE {}
    /\ pc' = "exit"
    /\ UNCHANGED <<tool, remote, invocations, raised, vtt_file, content,
                   text_lines, clean_text, stdout, stderr, exit_code>>

\* main() returns, or the exception reaches the interpreter, which prints a
\* traceback for anything but SystemExit
Terminate ==
    /\ pc = "exit"
    /\ exit_code' = ExitStatus(raised)
    /\ stderr' = IF raised \in {"none", "SystemExit"} THEN stderr
                 ELSE Append(stderr, "Traceback (most recent call last)")
    /\ pc' = "done"
    /\ UNCHANGED <<tool, remote, temp_dir, dir_files, invocations, raised,
                   vtt_file, content, text_lines, clean_text, stdout>>

Next ==
    \/ EnterScope
    \/ RunTool
    \/ RunToolFails
    \/ RunToolMissing
    \/ GlobNone
    \/ GlobFirst
    \/ ReadText
    \/ ReadTextRaises
    \/ CleanAndPrint
    \/ ExitScope
    \/ Terminate

(***************************************************************************)
(* Initial states: the process before the with statement, in an            *)
(* environment that fixes what yt-dlp does for the url.                    *)
(***************************************************************************)
RECURSIVE Flatten(_, _)
Flatten(f, k) == IF k > Len(f) THEN <<>> ELSE f[k] \o Flatten(f, k + 1)

\* all concatenations of at most n elements of pieces
Concats(pieces, n) ==
    { Flatten(f, 1) : f \in UNION { [1..m -> pieces] : m \in 0..n } }

\* all newline-joined documents of at most n lines of pool
LineDocs(pool, n) ==
    { join(f) : f \in UNION { [1..m -> pool] : m \in 0..n } }

InitWith(FileSets) ==
    /\ \/ tool \in {"missing", "fails"} /\ remote = {}
       \/ tool = "ok" /\ remote \in FileSets
    /\ pc = "start"
    /\ temp_dir = FALSE
    /\ dir_files = {}
    /\ invocations = 0
    /\ raised = "none"
    /\ vtt_file = <<>>
    /\ content = <<>>
    /\ text_lines = <<>>
    /\ clean_text = <<>>
    /\ stdout = <<>>
    /\ stderr = <<>>
    /\ exit_code = -1

OneFileOf(docs) == {{}} \cup { {d} : d \in docs \cup {Undecodable} }

\* Spec: one file, built from markup tokens
Tokens == { <<"a">>, <<"1">>, <<"<">>, <<">">>, <<"<", "a", ">">>, <<" ">>, <<"\n">> }
TokenDocs == Concats(Tokens, MaxTokens)

Init == InitWith(OneFileOf(TokenDocs))
Spec == Init /\ [][Next]_vars

\* SpecDedup: one file of plain dialogue characters and line breaks
DedupChars == { <<"a">>, <<"b">>, <<"\n">>, <<"\r">> }
DedupDocs == Concats(DedupChars, MaxDedupLen)

InitDedup == InitWith(OneFileOf(DedupDocs))
SpecDedup == InitDedup /\ [][Next]_vars

\* SpecStruct: one file, built from whole lines around the timing range
Timing ==
    <<"0", "0", ":", "0", "0", ":", "0", "1", ".", "0", "0", "0", " ", "-",
      "-", ">", " ", "0", "0", ":", "0", "0", ":", "0", "4", ".", "0", "0",
      "0">>
TimingTabs ==
    <<"0", "0", ":", "0", "0", ":", "0", "1", ".", "0", "0", "0", "\t",
      "-", "-", ">", "\t", "0", "0", ":", "0", "0", ":", "0", "4", ".",
      "0", "0", "0">>
TimingShort ==
    <<"0", "0", ":", "0", "0", ":", "0", "1", " ", "-", "-", ">", " ", "0",
      "0", ":", "0", "0", ":", "0", "4">>
HelloTagged ==
    <<"<", "b", ">", "H", "e", "l", "l", "o", "<", "/", "b", ">", " ", "w",
      "o", "r", "l", "d">>
HelloWorld == <<"H", "e", "l", "l", "o", " ", "w", "o", "r", "l", "d">>

StructLines ==
    { <<>>, Timing, TimingTabs, TimingShort,
      Timing \o <<" ", "a", "l", "i", "g", "n", ":", "s", "t", "a", "r", "t">>,
      Timing \o <<"H", "i">>,
      <<" ", " ">> \o Timing \o <<" ">>,
      <<"H", "i", " ">> \o Timing,
      <<"<", "i", ">">> \o Timing,
      NOTE \o <<" ">> \o Timing,
      <<"H", "i">>, WEBVTT }
StructDocs == LineDocs(StructLines, MaxLines)

InitStruct == InitWith(OneFileOf(StructDocs))
SpecStruct == InitStruct /\ [][Next]_vars

\* SpecFetch: up to MaxFiles files out of a few whole documents
Scenario ==
    <<"W", "E", "B", "V", "T", "T", "\n", "\n", "1", "\n", "0", "0", ":",
      "0", "0", ":", "0", "0", ".", "0", "0", "0", " ", "-", "-", ">", " ",
      "0", "0", ":", "0", "0", ":", "0", "2", ".", "0", "0", "0", "\n",
      "H", "e", "l", "l", "o", " ", "<", "i", ">", "t", "h", "e", "r", "e",
      "<", "/", "i", ">", "\n", "\n", "2", "\n", "0", "0", ":", "0", "0",
      ":", "0", "2", ".", "0", "0", "0", " ", "-", "-", ">", " ", "0", "0",
      ":", "0", "0", ":", "0", "4", ".", "0", "0", "0", "\n", "H", "e",
      "l", "l", "o", " ", "t", "h", "e", "r", "e", "\n", "\n", "N", "O",
      "T", "E", " ", "t", "h", "i", "s", " ", "i", "s", " ", "a", " ", "c",
      "o", "m", "m", "e", "n", "t", "\n", "G", "e", "n", "e", "r", "a",
      "l", " ", "K", "e", "n", "o", "b", "i", "\n">>
ScenarioClean ==
    <<"H", "e", "l", "l", "o", " ", "t", "h", "e", "r", "e", "\n", "G",
      "e", "n", "e", "r", "a", "l", " ", "K", "e", "n", "o", "b", "i">>

FetchPool ==
    { Scenario, <<>>, <<"H", "i">>, <<"a", "\n", "a">>, HelloTagged, Undecodable }

InitFetch ==
    InitWith({ F \in SUBSET FetchPool : Cardinality(F) <= MaxFiles })
SpecFetch == InitFetch /\ [][Next]_vars

(***************************************************************************)
(* Vocabulary of the properties                                            *)
(***************************************************************************)
\* clean_vtt has returned and its result has been printed
Cleaned == raised = "none" /\ pc \in {"unwind", "exit", "done"}

TrimmedLines(text) ==
    [k \in 1..Len(splitlines(text)) |-> strip(splitlines(text)[k])]

\* the trimmed lines that pass the structural discard checks, in order
Passing(text) == SelectSeq(TrimmedLines(text), LAMBDA l : ~Discarded(l))

\* their tag-stripped forms, in order
Candidates(text) == [k \in 1..Len(Passing(text)) |-> StripTags(Passing(text)[k])]

NoAdjacentEqual(ls) == \A k \in 1..(Len(ls) - 1) : ls[k] # ls[k + 1]

\* out is cand with some elements left out, each left-out element being equal
\* to the element of out that was taken last before it
RECURSIVE Collapses(_, _, _, _)
Collapses(cand, out, k, j) ==
    IF k > Len(cand) THEN j = Len(out)
    ELSE \/ j < Len(out) /\ cand[k] = out[j + 1] /\ Collapses(cand, out, k + 1, j + 1)
         \/ j >= 1 /\ cand[k] = out[j] /\ Collapses(cand, out, k + 1, j)

HasAngle(line) == \E k \in 1..Len(line) : line[k] = "<"

\* a '<' followed later in the line by a '>'
OpenThenClose(line) ==
    \E k \in 1..Len(line) : \E j \in (k + 1)..Len(line) :
        line[k] = "<" /\ line[j] = ">"

\* a '<' followed later by a '>' with something in between
OpenTextClose(line) ==
    \E k \in 1..Len(line) : \E j \in (k + 2)..Len(line) :
        line[k] = "<" /\ line[j] = ">" /\ line[k + 1] # ">"

Structural(line) ==
    IsHeader(line) \/ isdigit(line) \/ timestamp_match(line) \/ IsAnnotation(line)

(***************************************************************************)
(* Properties of clean_vtt over token documents (Spec)                     *)
(***************************************************************************)
\* C1: the returned transcript never contains two equal lines in direct
\* succession (the duplicate test sees the line as it will be stored).
C1_NoRepeatedLine == Cleaned => NoAdjacentEqual(text_lines)

\* C2: the returned lines are, in document order, the tag-stripped forms of
\* the trimmed lines that pass the discard checks, with nothing added, nothing
\* reordered, and only lines equal to the line stored just before left out.
C2_OrderedSubsequence ==
    Cleaned => Collapses(Candidates(content), text_lines, 1, 0)

C2_Witness ==
    /\ Cleaned
    /\ Len(text_lines) >= 1
    /\ Len(Candidates(content)) > Len(text_lines)
    /\ Len(splitlines(content)) > Len(Candidates(content))

C6_OneEmptyLine ==
    Cleaned =>
        /\ (\E k \in 1..Len(Candidates(content)) : Candidates(content)[k] = <<>>)
               => (\E k \in 1..Len(text_lines) : text_lines[k] = <<>>)
        /\ \A k \in 1..(Len(text_lines) - 1) :
               ~(text_lines[k] = <<>> /\ text_lines[k + 1] = <<>>)

\* what C7 asks of the output
C7_Pre ==
    /\ \A k \in 1..Len(text_lines) : ~Structural(text_lines[k])
    /\ NoAdjacentEqual(text_lines)

\* C7 as stated: cleaning the output again changes nothing whenever the
\* output has no header, index, timestamp or annotation line and no
\* consecutive duplicates.
C7_CleanTwice == (Cleaned /\ C7_Pre) => clean_vtt(clean_text) = clean_text

C7_Trimmed ==
    \A k \in 1..Len(text_lines) :
        text_lines[k] # <<>> /\ strip(text_lines[k]) = text_lines[k]

\* C7 amended: the same, for outputs in which, moreover, no stored line is
\* empty or begins or ends with whitespace.
C7_CleanTwiceTrimmed ==
    (Cleaned /\ C7_Pre /\ C7_Trimmed) => clean_vtt(clean_text) = clean_text

C7_Witness ==
    /\ Cleaned /\ C7_Pre /\ C7_Trimmed
    /\ Len(text_lines) >= 2
    /\ \E k \in 1..Len(text_lines) : HasAngle(text_lines[k])
    /\ \E k \in 1..Len(Passing(content)) : Passing(content)[k] # Candidates(content)[k]

(***************************************************************************)
(* Immediate-only duplicate suppression over plain dialogue (SpecDedup)    *)
(***************************************************************************)
\* ls without every element that equals the element just before it
RECURSIVE CollapseRuns(_, _)
CollapseRuns(ls, k) ==
    IF k > Len(ls) THEN <<>>
    ELSE IF k > 1 /\ ls[k] = ls[k - 1]
         THEN CollapseRuns(ls, k + 1)
         ELSE <<ls[k]>> \o CollapseRuns(ls, k + 1)

NonEmptyLines(text) == SelectSeq(splitlines(text), LAMBDA l : l # <<>>)

\* C8: a dialogue line equal to the last stored line is dropped and a line
\* equal only to an earlier stored line is kept, so for plain lines the
\* output is the input with each run of equal lines shrunk to one line; in
\* particular A, A, B, A gives A, B, A.
C8_ImmediateOnly ==
    Cleaned => text_lines = CollapseRuns(NonEmptyLines(content), 1)

C8_Witness ==
    /\ Cleaned
    /\ splitlines(content) = << <<"a">>, <<"a">>, <<"b">>, <<"a">> >>
    /\ text_lines = << <<"a">>, <<"b">>, <<"a">> >>

(***************************************************************************)
(* The timing-range test (SpecStruct)                                      *)
(***************************************************************************)
\* HH:MM:SS.mmm --> HH:MM:SS.mmm, "D" standing for one decimal digit
TimingShape ==
    <<"D", "D", ":", "D", "D", ":", "D", "D", ".", "D", "D", "D", " ", "-", "-", ">", " ", "D", "D", ":", "D", "D", ":", "D", "D", ".", "D", "D", "D">>

\* the text has the timing-range shape from position k on
ShapeAt(l, k) ==
    /\ Len(l) >= k - 1 + Len(TimingShape)
    /\ \A m \in 1..Len(TimingShape) :
           IF TimingShape[m] = "D" THEN l[k - 1 + m] \in Digits
           ELSE l[k - 1 + m] = TimingShape[m]

RemoveAt(ls, k) == SubSeq(ls, 1, k - 1) \o SubSeq(ls, k + 1, Len(ls))

\* line k of the document contributes nothing: the transcript is the one the
\* document without that line gives
Dropped(lines, k) ==
    text_lines = CleanLoop(RemoveAt(lines, k), 1, <<>>)

InTranscript(line) == \E j \in 1..Len(text_lines) : text_lines[j] = line

\* C9: a trimmed line that is exactly a timing range is discarded wherever it
\* stands in the document; the range without milliseconds is not discarded
\* and is in the output.
C9_ExactTimingOnly ==
    Cleaned =>
        LET lines == splitlines(content)
        IN \A k \in 1..Len(lines) :
            LET l == strip(lines[k])
            IN /\ (Len(l) = Len(TimingShape) /\ ShapeAt(l, 1)) => Dropped(lines, k)
               /\ l = TimingShort => InTranscript(TimingShort)

C9_Witness ==
    /\ Cleaned
    /\ Len(splitlines(content)) = 3
    /\ strip(splitlines(content)[1]) = TimingShort
    /\ strip(splitlines(content)[3]) = Timing
    /\ splitlines(content)[3] # Timing
    /\ text_lines = <<TimingShort, <<"H", "i">> >>

\* a timing range stands in the line, but not at its start
TimingOnlyLater(l) == ~ShapeAt(l, 1) /\ \E k \in 2..Len(l) : ShapeAt(l, k)

\* C10 as stated: a trimmed line that begins with a timing range is discarded
\* whatever follows the range; a line in which a timing range comes only
\* after other leading text is not discarded and is kept as dialogue.
C10_PrefixTest ==
    Cleaned =>
        LET lines == splitlines(content)
        IN \A k \in 1..Len(lines) :
            LET l == strip(lines[k])
            IN /\ ShapeAt(l, 1) => Dropped(lines, k)
               /\ TimingOnlyLater(l) => InTranscript(StripTags(l))

\* C10 amended: the same, except that a line whose leading text makes it an
\* annotation (it begins with NOTE or STYLE) is discarded by that test.
C10_PrefixTestButAnnotation ==
    Cleaned =>
        LET lines == splitlines(content)
        IN \A k \in 1..Len(lines) :
            LET l == strip(lines[k])
            IN /\ ShapeAt(l, 1) => Dropped(lines, k)
               /\ (TimingOnlyLater(l) /\ ~startswith(l, NOTE) /\ ~startswith(l, STYLE))
                      => InTranscript(StripTags(l))

C10_Witness ==
    /\ Cleaned
    /\ Len(splitlines(content)) = 3
    /\ splitlines(content)[1] = Timing \o <<"H", "i">>
    /\ splitlines(content)[2] = <<"H", "i", " ">> \o Timing
    /\ splitlines(content)[3] = NOTE \o <<" ">> \o Timing
    /\ text_lines = << <<"H", "i", " ">> \o Timing >>

C4_ScopedDirectory ==
    /\ pc \in {"run", "glob", "read", "clean", "unwind"} => temp_dir
    /\ pc \in {"exit", "done"} => ~temp_dir /\ dir_files = {}

C4_Witness ==
    /\ pc = "done" /\ ~temp_dir
    /\ raised = "UnicodeDecodeError"
    /\ invocations = 1

====
